---------------------------- MODULE Spec2Model ----------------------------
(***************************************************************************)
(* A model of the data normalisation and choropleth styling pipeline of    *)
(* coronamap (make_map.py, map_basics.py).                                 *)
(*                                                                         *)
(* Representation.                                                         *)
(*  - A string is a sequence of one-character strings, so that             *)
(*    str.lower() and str.replace('_', ' ') are computed character by      *)
(*    character and sorted() compares code points.                         *)
(*  - A pandas DataFrame is a sequence of rows; a row is a record of its   *)
(*    columns plus "idx", its index label.                                 *)
(*  - A float is a record [nan, num, den]: NaN, or the exact rational      *)
(*    num/den with den > 0.  Comparisons follow IEEE 754: every ordered    *)
(*    comparison with NaN is false.                                        *)
(*  - A date is the number of days since 1970-01-01.                       *)
(***************************************************************************)
EXTENDS Integers, Sequences, FiniteSets, TLC

VARIABLES
    pc,           \* the position of the calling script in the pipeline
    sheet,        \* the spreadsheet as pd.read_excel returns it
    raw_data,     \* read_raw_data's table
    dates,        \* read_raw_data's sorted list of the dates of the table
    data,         \* add_cumulative's table; norm_population adds columns
    population,   \* the population table given to norm_population
    geojson,      \* the features of the boundary document: [id, name]
    log,          \* the log flag of the map functions
    threshold,    \* the threshold of the map functions, or None
    countries,    \* the countries argument of get_min_max / create_style
    seen,         \* the values get_min_max reduced and create_style styled
    min_value,    \* get_min_max's results
    max_value,
    styles,       \* create_style's style_dict
    style_dict,   \* create_folium_choropleth's time-keyed style_dict
    missing       \* print_missing_countries' result

vars == << pc, sheet, raw_data, dates, data, population, geojson, log,
           threshold, countries, seen, min_value, max_value, styles,
           style_dict, missing >>

-----------------------------------------------------------------------------
(* Bounds of the model.                                                    *)

MaxRows == 3
MaxDataRows == 2

-----------------------------------------------------------------------------
(* Strings.                                                                *)

Str_PE == << "P", "E" >>
Str_US == << "U", "S" >>
Str_Peru == << "P", "e", "r", "u" >>
Str_U_S == << "U", "_", "S" >>

\* ord(c) of the characters that occur.
Ord(c) ==
    CASE c = " " -> 32
      [] c = "E" -> 69
      [] c = "P" -> 80
      [] c = "R" -> 82
      [] c = "S" -> 83
      [] c = "U" -> 85
      [] c = "_" -> 95
      [] c = "e" -> 101
      [] c = "p" -> 112
      [] c = "r" -> 114
      [] c = "s" -> 115
      [] c = "u" -> 117

LowerChar(c) ==
    CASE c = "E" -> "e"
      [] c = "P" -> "p"
      [] c = "R" -> "r"
      [] c = "S" -> "s"
      [] c = "U" -> "u"
      [] OTHER -> c

\* str.lower()
Lower(s) == [i \in 1..Len(s) |-> LowerChar(s[i])]

\* str.replace('_', ' ')
ReplaceUnderscore(s) == [i \in 1..Len(s) |-> IF s[i] = "_" THEN " " ELSE s[i]]

\* s < t for Python strings: lexicographic on code points.
RECURSIVE StrLess(_, _)
StrLess(s, t) ==
    IF t = << >> THEN FALSE
    ELSE IF s = << >> THEN TRUE
    ELSE IF Ord(Head(s)) # Ord(Head(t)) THEN Ord(Head(s)) < Ord(Head(t))
    ELSE StrLess(Tail(s), Tail(t))

-----------------------------------------------------------------------------
(* Floats.                                                                 *)

NaN == [nan |-> TRUE, num |-> 0, den |-> 1]
Float(n) == [nan |-> FALSE, num |-> n, den |-> 1]
Ratio(n, d) == [nan |-> FALSE, num |-> n, den |-> d]

\* np.isnan
IsNaN(x) == x.nan
\* x < y, x > y, x <= y, x == y on floats
FLt(x, y) == ~x.nan /\ ~y.nan /\ x.num * y.den < y.num * x.den
FGt(x, y) == FLt(y, x)
FLe(x, y) == ~x.nan /\ ~y.nan /\ x.num * y.den <= y.num * x.den
FEq(x, y) == ~x.nan /\ ~y.nan /\ x.num * y.den = y.num * x.den
\* x / y for y > 0
FDiv(x, y) ==
    IF x.nan \/ y.nan THEN NaN
    ELSE [nan |-> FALSE, num |-> x.num * y.den, den |-> x.den * y.num]

-----------------------------------------------------------------------------
(* Generic helpers on sequences.                                           *)

Range(s) == {s[i] : i \in 1..Len(s)}

\* Sequences over S of length at most n.
SeqsUpTo(S, n) == UNION {[1..k -> S] : k \in 0..n}

\* The index labels pandas gives a new frame: RangeIndex(0, n).
WithRangeIndex(rows) == [i \in 1..Len(rows) |-> [rows[i] EXCEPT !.idx = i - 1]]

\* list(sorted(S)) for a set of strings
RECURSIVE SortedStrs(_)
SortedStrs(S) ==
    IF S = {} THEN << >>
    ELSE LET m == CHOOSE x \in S : \A y \in S \ {x} : StrLess(x, y)
         IN << m >> \o SortedStrs(S \ {m})

\* list(sorted(S)) for a set of dates
RECURSIVE SortedInts(_)
SortedInts(S) ==
    IF S = {} THEN << >>
    ELSE LET m == CHOOSE x \in S : \A y \in S : x <= y
         IN << m >> \o SortedInts(S \ {m})

\* data.loc[data['country'] == country]
Loc(tbl, country) == SelectSeq(tbl, LAMBDA r : r.country = country)

\* data[col].unique(): the distinct values in order of first appearance
RECURSIVE UniqueOf(_)
UniqueOf(s) ==
    IF s = << >> THEN << >>
    ELSE LET front == UniqueOf(SubSeq(s, 1, Len(s) - 1))
             last == s[Len(s)]
         IN IF last \in Range(front) THEN front ELSE Append(front, last)

Column(tbl, col) == [i \in 1..Len(tbl) |-> tbl[i][col]]

-----------------------------------------------------------------------------
(* make_map.py: read_raw_data                                              *)

Dates == {18353, 18354, 18355}
SheetCountries == {Str_Peru, Str_U_S}
\* The counts and the auxiliary attribute (GeoId) of a spreadsheet row; a
\* correction of earlier reports is a negative count.
SheetCounts ==
    { [new_cases |-> 5, new_deaths |-> 1, geoid |-> Str_PE],
      [new_cases |-> 2, new_deaths |-> -1, geoid |-> Str_US] }
SheetRows ==
    { [idx |-> 0, date |-> d, country |-> c, new_cases |-> k.new_cases,
       new_deaths |-> k.new_deaths, geoid |-> k.geoid] :
         d \in Dates, c \in SheetCountries, k \in SheetCounts }
Sheets == {WithRangeIndex(s) : s \in SeqsUpTo(SheetRows, MaxRows)}

\* The table and the dates read_raw_data returns for a spreadsheet.
read_raw_data_table(xls) ==
    [i \in 1..Len(xls) |->
        [xls[i] EXCEPT !.country = ReplaceUnderscore(Lower(@)),
                       !.geoid = Lower(@)]]

read_raw_data_dates(xls) == SortedInts(Range(Column(xls, "date")))

-----------------------------------------------------------------------------
(* make_map.py: add_cumulative                                             *)

\* MissingOf with the test of line 103 inverted (i in datesi).
MissingOf_Inverted(raw, ds, country) ==
    LET datai == Loc(raw, country)
        datesi == Range(Column(datai, "date"))
        missing_dates == SelectSeq(ds, LAMBDA d : d \in datesi)
    IN [i \in 1..Len(missing_dates) |->
          [idx |-> 0, date |-> missing_dates[i], country |-> country,
           new_cases |-> 0, new_deaths |-> 0,
           geoid |-> datai[Len(datai)].geoid]]

\* The rows add_cumulative synthesizes for one country, in the order of dates.
MissingOf(raw, ds, country) ==
    LET datai == Loc(raw, country)
        datesi == Range(Column(datai, "date"))
        missing_dates == SelectSeq(ds, LAMBDA d : d \notin datesi)
    IN [i \in 1..Len(missing_dates) |->
          [idx |-> 0, date |-> missing_dates[i], country |-> country,
           new_cases |-> 0, new_deaths |-> 0,
           geoid |-> datai[Len(datai)].geoid]]

\* missing_data: the synthesized rows of all countries, as a DataFrame.
RECURSIVE MissingRows(_, _, _)
MissingRows(raw, ds, cs) ==
    IF cs = << >> THEN << >>
    ELSE MissingOf(raw, ds, Head(cs)) \o MissingRows(raw, ds, Tail(cs))

MissingData(raw, ds) ==
    WithRangeIndex(MissingRows(raw, ds, SortedStrs(Range(Column(raw, "country")))))

\* Index.is_unique
IsUnique(index) == \A i, j \in 1..Len(index) : index[i] = index[j] => i = j

\* DataFrame.append(other, ignore_index, verify_integrity): pandas builds the new
\* index first (a fresh RangeIndex under ignore_index, else the two indexes one
\* after the other) and verify_integrity raises ValueError when that index has a
\* duplicate label.
DataFrameAppend(df, other, ignore_index, verify_integrity) ==
    LET rows == df \o other
        out == IF ignore_index THEN WithRangeIndex(rows) ELSE rows
    IN IF verify_integrity /\ ~IsUnique(Column(out, "idx"))
       THEN [raised |-> TRUE, rows |-> << >>]
       ELSE [raised |-> FALSE, rows |-> out]

\* The sort key of sort_values(by=['country', 'date']).
RowLess(r, s) ==
    \/ StrLess(r.country, s.country)
    \/ r.country = s.country /\ r.date < s.date

\* Insert r after every row that is not greater: with InsertionSort, a stable sort.
RECURSIVE InsertSorted(_, _)
InsertSorted(sorted, r) ==
    IF sorted = << >> THEN << r >>
    ELSE IF RowLess(r, Head(sorted)) THEN << r >> \o sorted
    ELSE << Head(sorted) >> \o InsertSorted(Tail(sorted), r)

RECURSIVE SortValues(_)
SortValues(tbl) ==
    IF tbl = << >> THEN << >>
    ELSE InsertSorted(SortValues(SubSeq(tbl, 1, Len(tbl) - 1)), tbl[Len(tbl)])

\* Series.cumsum() of an integer column
RECURSIVE CumSum(_)
CumSum(s) ==
    IF s = << >> THEN << >>
    ELSE LET front == CumSum(SubSeq(s, 1, Len(s) - 1))
         IN Append(front, (IF front = << >> THEN 0 ELSE front[Len(front)])
                            + s[Len(s)])

\* data.loc[data['country'] == country, col] = series: the series carries the
\* index labels of the country's rows and is aligned on them.
AssignCum(tbl, country, col, new_col) ==
    LET datai == Loc(tbl, country)
        series == CumSum(Column(datai, new_col))
        at(label) == CHOOSE k \in 1..Len(datai) : datai[k].idx = label
    IN [i \in 1..Len(tbl) |->
          IF tbl[i].country = country
          THEN [tbl[i] EXCEPT ![col] = Float(series[at(tbl[i].idx)])]
          ELSE tbl[i]]

RECURSIVE CumulateAll(_, _)
CumulateAll(tbl, cs) ==
    IF cs = << >> THEN tbl
    ELSE CumulateAll(
            AssignCum(AssignCum(tbl, Head(cs), "sum_cases", "new_cases"),
                      Head(cs), "sum_deaths", "new_deaths"),
            Tail(cs))

\* add_cumulative(raw_data, dates): [raised, rows]
add_cumulative(raw, ds) ==
    LET cs == SortedStrs(Range(Column(raw, "country")))
        raw_data2 == DataFrameAppend(raw, MissingData(raw, ds), TRUE, TRUE)
        sorted == WithRangeIndex(SortValues(raw_data2.rows))
        blank == [i \in 1..Len(sorted) |->
                    sorted[i] @@ [sum_cases |-> NaN, sum_deaths |-> NaN]]
    IN IF raw_data2.raised THEN raw_data2
       ELSE [raised |-> FALSE, rows |-> CumulateAll(blank, cs)]

-----------------------------------------------------------------------------
(* make_map.py: read_population, norm_population                           *)

Str_U_space_S == << "U", " ", "S" >>
\* The rows of population.csv: Population_2020 is in thousands and positive.
PopulationRows ==
    { [Region |-> r, Population_2020 |-> p] :
         r \in {Str_Peru, Str_U_space_S}, p \in {50, 300} }
      \ { [Region |-> Str_U_space_S, Population_2020 |-> 50] }
PopulationFiles == SeqsUpTo(PopulationRows, 2)

read_population(csv) ==
    [i \in 1..Len(csv) |-> [csv[i] EXCEPT !.Region = Lower(@)]]

\* The per-capita columns of one row, given the matching population rows.
PerCapitaRow(r, pop) ==
    LET capita == FDiv(Float(pop[1].Population_2020), Float(100))
    IN [r EXCEPT !.sum_cases_per_capita = FDiv(r.sum_cases, capita),
                 !.sum_deaths_per_capita = FDiv(r.sum_deaths, capita),
                 !.new_cases_per_capita = FDiv(Float(r.new_cases), capita),
                 !.new_deaths_per_capita = FDiv(Float(r.new_deaths), capita)]

\* NormCountry skipping only a country without any match (len(pop) == 0).
NormCountry_FirstMatch(tbl, pops, country) ==
    LET pop == SelectSeq(pops, LAMBDA p : p.Region = country)
    IN IF Len(pop) = 0 THEN tbl
       ELSE [i \in 1..Len(tbl) |->
               IF tbl[i].country = country THEN PerCapitaRow(tbl[i], pop)
               ELSE tbl[i]]

\* The body of norm_population's loop for one country.
NormCountry(tbl, pops, country) ==
    LET pop == SelectSeq(pops, LAMBDA p : p.Region = country)
    IN IF Len(pop) # 1 THEN tbl
       ELSE [i \in 1..Len(tbl) |->
               IF tbl[i].country = country THEN PerCapitaRow(tbl[i], pop)
               ELSE tbl[i]]

RECURSIVE NormAll(_, _, _)
NormAll(tbl, pops, cs) ==
    IF cs = << >> THEN tbl
    ELSE NormAll(NormCountry(tbl, pops, Head(cs)), pops, Tail(cs))

\* norm_population(data, population): the table it leaves in data.
norm_population(tbl, pops) ==
    LET cs == SortedStrs(Range(Column(tbl, "country")))
        blank == [i \in 1..Len(tbl) |->
                    tbl[i] @@ [sum_cases_per_capita |-> NaN,
                               sum_deaths_per_capita |-> NaN,
                               new_cases_per_capita |-> NaN,
                               new_deaths_per_capita |-> NaN]]
    IN NormAll(blank, pops, cs)

-----------------------------------------------------------------------------
(* The preparation pipeline: read_raw_data, add_cumulative, norm_population *)

\* An optional float argument: None, or a value.
None == [none |-> TRUE, val |-> NaN]
Some(x) == [none |-> FALSE, val |-> x]

Idle ==
    /\ geojson = << >> /\ log = FALSE /\ threshold = None /\ countries = << >>
    /\ seen = [min_max |-> << >>, style |-> << >>]
    /\ min_value = NaN /\ max_value = NaN
    /\ styles = << >> /\ style_dict = << >> /\ missing = << >>

Init ==
    /\ pc = "start"
    /\ sheet \in Sheets
    /\ raw_data = << >> /\ dates = << >> /\ data = << >> /\ population = << >>
    /\ Idle

ReadRawData ==
    /\ pc = "start"
    /\ raw_data' = read_raw_data_table(sheet)
    /\ dates' = read_raw_data_dates(sheet)
    /\ pc' = "read"
    /\ UNCHANGED << sheet, data, population, geojson, log, threshold, countries,
                    seen, min_value, max_value, styles, style_dict, missing >>

AddCumulative ==
    /\ pc = "read"
    /\ LET r == add_cumulative(raw_data, dates)
       IN /\ data' = r.rows
          /\ pc' = IF r.raised THEN "failed" ELSE "cumulated"
    /\ UNCHANGED << sheet, raw_data, dates, population, geojson, log, threshold,
                    countries, seen, min_value, max_value, styles, style_dict,
                    missing >>

NormPopulation ==
    /\ pc = "cumulated"
    /\ \E csv \in PopulationFiles :
          /\ population' = read_population(csv)
          /\ data' = norm_population(data, population')
    /\ pc' = "normed"
    /\ UNCHANGED << sheet, raw_data, dates, geojson, log, threshold, countries,
                    seen, min_value, max_value, styles, style_dict, missing >>

Next == ReadRawData \/ AddCumulative \/ NormPopulation

Spec == Init /\ [][Next]_vars

-----------------------------------------------------------------------------
(* map_basics.py: do_log, get_min_max, get_country_id, create_style        *)

\* OPACITY = 0.7
OPACITY == Ratio(7, 10)
\* The color of a value that is not shown.
BlankColor == << "#ffffff" >>
\* Python's None where a feature id is expected.
NoId == "None"

\* np.log on the values that occur, to three decimals; np.log(0) is -inf, the
\* ratio -1/0, which FLt orders below every number.
np_log(x) ==
    IF x.nan \/ x.num < 0 THEN NaN
    ELSE IF x.num = 0 THEN Ratio(-1, 0)
    ELSE CASE x.num = x.den -> Float(0)
           [] 2 * x.num = x.den -> Ratio(-693, 1000)
           [] x.num = 3 * x.den -> Ratio(1099, 1000)

\* The body of do_log's loop with the test "i < 0".
LogOf_Strict(i) == IF FLt(i, Float(0)) THEN NaN ELSE np_log(i)

\* The body of do_log's loop: what is appended for the value i.
LogOf(i) == IF FLe(i, Float(0)) THEN NaN ELSE np_log(i)

do_log(values) == [k \in 1..Len(values) |-> LogOf(values[k])]

\* The builtin min and max of a non-empty sequence: the first item, replaced by
\* each later item that compares less (greater) than the result so far.
RECURSIVE PyMinFrom(_, _)
PyMinFrom(result, rest) ==
    IF rest = << >> THEN result
    ELSE PyMinFrom(IF FLt(Head(rest), result) THEN Head(rest) ELSE result,
                   Tail(rest))
PyMin(values) == PyMinFrom(Head(values), Tail(values))

RECURSIVE PyMaxFrom(_, _)
PyMaxFrom(result, rest) ==
    IF rest = << >> THEN result
    ELSE PyMaxFrom(IF FGt(Head(rest), result) THEN Head(rest) ELSE result,
                   Tail(rest))
PyMax(values) == PyMaxFrom(Head(values), Tail(values))

\* The values of a country's rows as get_min_max and create_style use them.
ValuesOf(datai, column, lg) ==
    IF lg THEN do_log(Column(datai, column)) ELSE Column(datai, column)

\* get_min_max's loop from the state acc = [min_value, max_value, seen]; seen
\* collects the list "values" of every iteration.
RECURSIVE MinMaxFrom(_, _, _, _, _)
MinMaxFrom(acc, tbl, cs, column, lg) ==
    IF cs = << >> THEN acc
    ELSE LET datai == Loc(tbl, Head(cs))
             values == ValuesOf(datai, column, lg)
         IN IF Len(datai) = 0 THEN MinMaxFrom(acc, tbl, Tail(cs), column, lg)
            ELSE MinMaxFrom(
                    [min_value |-> PyMin(<< acc.min_value, PyMin(values) >>),
                     max_value |-> PyMax(<< acc.max_value, PyMax(values) >>),
                     seen |-> Append(acc.seen, values)],
                    tbl, Tail(cs), column, lg)

get_min_max(tbl, cs, column, lg) ==
    MinMaxFrom([min_value |-> Float(0), max_value |-> Float(0), seen |-> << >>],
               tbl, cs, column, lg)

RECURSIVE get_country_id(_, _)
get_country_id(country, features) ==
    IF features = << >> THEN NoId
    ELSE IF Lower(Head(features).name) = Lower(country) THEN Head(features).id
    ELSE get_country_id(country, Tail(features))

\* branca's LinearColormap(vmin, vmax) applied to val: the color, not computed.
ColorMap(color_map, val) ==
    << "LinearColormap", color_map.vmin, color_map.vmax, val >>

\* The style of one value with the threshold test "val <= threshold".
StyleOf_Inclusive(val, color_map, thr) ==
    IF IsNaN(val) THEN [color |-> BlankColor, opacity |-> Float(0)]
    ELSE IF ~thr.none /\ FLe(val, thr.val)
         THEN [color |-> BlankColor, opacity |-> Float(0)]
         ELSE [color |-> ColorMap(color_map, val), opacity |-> OPACITY]

\* The style create_style appends for one value.
StyleOf(val, color_map, thr) ==
    IF IsNaN(val) THEN [color |-> BlankColor, opacity |-> Float(0)]
    ELSE IF ~thr.none /\ FLt(val, thr.val)
         THEN [color |-> BlankColor, opacity |-> Float(0)]
         ELSE [color |-> ColorMap(color_map, val), opacity |-> OPACITY]

\* d[k] = v on a dict
Put(d, k, v) == [x \in DOMAIN d \cup {k} |-> IF x = k THEN v ELSE d[x]]

\* create_style's loop without the test "if len(datai) == 0: continue".
RECURSIVE StyleFrom_NoRowsKept(_, _, _, _, _, _, _, _)
StyleFrom_NoRowsKept(acc, tbl, features, column, cs, color_map, lg, thr) ==
    IF cs = << >> THEN acc
    ELSE LET country == Head(cs)
             datai == Loc(tbl, country)
             values == ValuesOf(datai, column, lg)
             country_idx == get_country_id(country, features)
             style == [k \in 1..Len(values) |-> StyleOf(values[k], color_map, thr)]
             next == IF country_idx = NoId
                     THEN [acc EXCEPT !.seen = Append(@, values)]
                     ELSE [style_dict |-> Put(acc.style_dict, country_idx, style),
                           seen |-> Append(acc.seen, values)]
         IN StyleFrom_NoRowsKept(next, tbl, features, column, Tail(cs),
                                 color_map, lg, thr)

\* create_style's loop from the state acc = [style_dict, seen].
RECURSIVE StyleFrom(_, _, _, _, _, _, _, _)
StyleFrom(acc, tbl, features, column, cs, color_map, lg, thr) ==
    IF cs = << >> THEN acc
    ELSE LET country == Head(cs)
             datai == Loc(tbl, country)
             values == ValuesOf(datai, column, lg)
             country_idx == get_country_id(country, features)
             style == [k \in 1..Len(values) |-> StyleOf(values[k], color_map, thr)]
             next == IF Len(datai) = 0 THEN acc
                     ELSE IF country_idx = NoId
                     THEN [acc EXCEPT !.seen = Append(@, values)]
                     ELSE [style_dict |-> Put(acc.style_dict, country_idx, style),
                           seen |-> Append(acc.seen, values)]
         IN StyleFrom(next, tbl, features, column, Tail(cs), color_map, lg, thr)

create_style(tbl, features, column, cs, color_map, lg, thr) ==
    StyleFrom([style_dict |-> << >>, seen |-> << >>],
              tbl, features, column, cs, color_map, lg, thr)

-----------------------------------------------------------------------------
(* map_basics.py: create_folium_choropleth                                 *)

Digit(n) == << "0", "1", "2", "3", "4", "5", "6", "7", "8", "9" >>[n + 1]

\* str(n) of an integer
RECURSIVE StrOfNat(_)
StrOfNat(n) == IF n < 10 THEN << Digit(n) >>
               ELSE Append(StrOfNat(n \div 10), Digit(n % 10))
StrOfInt(n) == IF n < 0 THEN << "-" >> \o StrOfNat(-n) ELSE StrOfNat(n)

\* (date.astype(int) // 10**9).astype('U10'): the seconds since the epoch of a
\* date (86400 a day), as a string of at most ten characters.
TimeKey(d) ==
    LET s == StrOfInt(d * 86400)
    IN SubSeq(s, 1, IF Len(s) < 10 THEN Len(s) ELSE 10)

\* The dict that "for datei, vali in zip(ks, val): d[datei] = vali" builds.
ZipDict(ks, val) ==
    LET n == IF Len(ks) < Len(val) THEN Len(ks) ELSE Len(val)
        last(k) == CHOOSE i \in 1..n : ks[i] = k /\ \A j \in (i + 1)..n : ks[j] # k
    IN [k \in {ks[i] : i \in 1..n} |-> val[last(k)]]

\* create_folium_choropleth(geojson, data, map_settings), up to the
\* TimeSliderChoropleth: [min_value, max_value, seen, styles, style_dict].
create_folium_choropleth(features, tbl, use_logscale, thr) ==
    LET cs == SortedStrs(Range(Column(tbl, "country")))
        mm == get_min_max(tbl, cs, "sum_cases", use_logscale)
        color_map == [vmin |-> mm.min_value, vmax |-> mm.max_value]
        st == create_style(tbl, features, "sum_cases", cs, color_map,
                           use_logscale, thr)
        ds == UniqueOf(Column(tbl, "date"))
        keys == [i \in 1..Len(ds) |-> TimeKey(ds[i])]
    IN [min_value |-> mm.min_value, max_value |-> mm.max_value,
        seen |-> [min_max |-> mm.seen, style |-> st.seen],
        styles |-> st.style_dict,
        style_dict |-> [key \in DOMAIN st.style_dict |->
                           ZipDict(keys, st.style_dict[key])]]

-----------------------------------------------------------------------------
(* make_map.py: load_countries, print_missing_countries                    *)

Str_PERU == << "P", "E", "R", "U" >>
Str_Spain == << "S", "p", "a", "i", "n" >>

\* The features of the boundary documents considered: [id, name].
GeoDocuments ==
    { << [id |-> "PER", name |-> Str_Peru], [id |-> "USA", name |-> Str_U_space_S] >>,
      << [id |-> "-99", name |-> Str_PERU], [id |-> "PER", name |-> Str_Peru] >>,
      << [id |-> "ESP", name |-> Str_Spain] >> }

\* load_countries' country_map: feature name -> id, a later feature of the same
\* name replacing an earlier one.
RECURSIVE CountryMapFrom(_, _)
CountryMapFrom(acc, features) ==
    IF features = << >> THEN acc
    ELSE CountryMapFrom(Put(acc, Head(features).name, Head(features).id),
                        Tail(features))
country_map_of(features) == CountryMapFrom(<< >>, features)

\* print_missing_countries comparing with the feature names as they are.
print_missing_countries_CaseSensitive(tbl, country_map) ==
    LET fet == DOMAIN country_map
    IN SelectSeq(SortedStrs(Range(Column(tbl, "country"))), LAMBDA i : i \notin fet)

\* print_missing_countries(data, country_map): the list it returns.
print_missing_countries(tbl, country_map) ==
    LET fet == {Lower(key) : key \in DOMAIN country_map}
    IN SelectSeq(SortedStrs(Range(Column(tbl, "country"))), LAMBDA i : i \notin fet)

-----------------------------------------------------------------------------
(* The map script: load_countries, print_missing_countries, then one of    *)
(* get_min_max, create_style and create_folium_choropleth on a table of    *)
(* the column sum_cases.                                                   *)

MapDates == {18353, 18354}
MapCountries == {ReplaceUnderscore(Lower(c)) : c \in SheetCountries}
MapValues == {NaN, Float(0), Ratio(1, 2), Float(3)}
MapRows ==
    { [idx |-> 0, date |-> d, country |-> c, sum_cases |-> v] :
         d \in MapDates, c \in MapCountries, v \in MapValues }
MapTables == {WithRangeIndex(s) : s \in SeqsUpTo(MapRows, MaxDataRows)}
Thresholds == {None, Some(Ratio(1099, 1000))}

InitMap ==
    /\ pc = "map"
    /\ data \in MapTables
    /\ sheet = << >> /\ raw_data = << >> /\ dates = << >> /\ population = << >>
    /\ Idle

LoadCountries ==
    /\ pc = "map"
    /\ geojson' \in GeoDocuments
    /\ pc' = "loaded"
    /\ UNCHANGED << sheet, raw_data, dates, data, population, log, threshold,
                    countries, seen, min_value, max_value, styles, style_dict,
                    missing >>

PrintMissingCountries ==
    /\ pc = "loaded"
    /\ missing' = print_missing_countries(data, country_map_of(geojson))
    /\ pc' = "reported"
    /\ UNCHANGED << sheet, raw_data, dates, data, population, geojson, log,
                    threshold, countries, seen, min_value, max_value, styles,
                    style_dict >>

GetMinMax ==
    /\ pc = "reported"
    /\ log' \in BOOLEAN
    /\ countries' = SortedStrs(Range(Column(data, "country")))
    /\ LET mm == get_min_max(data, countries', "sum_cases", log')
       IN /\ min_value' = mm.min_value
          /\ max_value' = mm.max_value
          /\ seen' = [seen EXCEPT !.min_max = mm.seen]
    /\ pc' = "ranged"
    /\ UNCHANGED << sheet, raw_data, dates, data, population, geojson, threshold,
                    styles, style_dict, missing >>

CreateStyle ==
    /\ pc = "reported"
    /\ log' \in BOOLEAN
    /\ threshold' \in Thresholds
    /\ countries' = SortedStrs(Range(Column(data, "country")))
    /\ LET st == create_style(data, geojson, "sum_cases", countries',
                              [vmin |-> Float(0), vmax |-> Float(3)],
                              log', threshold')
       IN /\ styles' = st.style_dict
          /\ seen' = [seen EXCEPT !.style = st.seen]
    /\ pc' = "styled"
    /\ UNCHANGED << sheet, raw_data, dates, data, population, geojson,
                    min_value, max_value, style_dict, missing >>

CreateFoliumChoropleth ==
    /\ pc = "reported"
    /\ log' \in BOOLEAN
    /\ threshold' \in Thresholds
    /\ countries' = SortedStrs(Range(Column(data, "country")))
    /\ LET m == create_folium_choropleth(geojson, data, log', threshold')
       IN /\ min_value' = m.min_value
          /\ max_value' = m.max_value
          /\ seen' = m.seen
          /\ styles' = m.styles
          /\ style_dict' = m.style_dict
    /\ pc' = "drawn"
    /\ UNCHANGED << sheet, raw_data, dates, data, population, geojson, missing >>

\* The lists given as create_style's countries argument: any of the countries
\* of the case data, whether the table at hand has rows of them or not.
CountryLists == {SortedStrs(S) : S \in SUBSET MapCountries}

\* create_style called with a list of countries of the caller's choice.
CreateStyleOfCountries ==
    /\ pc = "reported"
    /\ log' \in BOOLEAN
    /\ threshold' \in Thresholds
    /\ countries' \in CountryLists
    /\ LET st == create_style(data, geojson, "sum_cases", countries',
                              [vmin |-> Float(0), vmax |-> Float(3)],
                              log', threshold')
       IN /\ styles' = st.style_dict
          /\ seen' = [seen EXCEPT !.style = st.seen]
    /\ pc' = "styled_of"
    /\ UNCHANGED << sheet, raw_data, dates, data, population, geojson,
                    min_value, max_value, style_dict, missing >>

NextMap ==
    \/ LoadCountries
    \/ PrintMissingCountries
    \/ GetMinMax
    \/ CreateStyle
    \/ CreateStyleOfCountries
    \/ CreateFoliumChoropleth

SpecMap == InitMap /\ [][NextMap]_vars

-----------------------------------------------------------------------------
(* Properties of the preparation pipeline.                                 *)

Returned == pc \in {"cumulated", "normed"}

\* No two rows of the table share a (country, date) pair.
NoDuplicateKeys(tbl) ==
    \A i, j \in 1..Len(tbl) :
        (tbl[i].country = tbl[j].country /\ tbl[i].date = tbl[j].date) => i = j

RawCountries == {raw_data[i].country : i \in 1..Len(raw_data)}
RawDates == {raw_data[i].date : i \in 1..Len(raw_data)}
RawKeys == {<< raw_data[i].country, raw_data[i].date >> : i \in 1..Len(raw_data)}

RECURSIVE SumOf(_, _, _)
SumOf(tbl, col, I) ==
    IF I = {} THEN 0
    ELSE LET i == CHOOSE k \in I : TRUE
         IN tbl[i][col] + SumOf(tbl, col, I \ {i})

\* The rows of the row's country dated no later than the row.
UpTo(tbl, i) ==
    {j \in 1..Len(tbl) :
        tbl[j].country = tbl[i].country /\ tbl[j].date <= tbl[i].date}

\* C1: for a raw table with at most one row per (country, date), the table
\* add_cumulative returns holds, for every country of the raw table, exactly one
\* row for each date of the raw table and no other row, each country's rows in
\* ascending date order.
C1_CompletedSeries ==
    (Returned /\ NoDuplicateKeys(raw_data)) =>
        /\ \A i \in 1..Len(data) :
              data[i].country \in RawCountries /\ data[i].date \in RawDates
        /\ \A c \in RawCountries, d \in RawDates :
              Cardinality({i \in 1..Len(data) :
                              data[i].country = c /\ data[i].date = d}) = 1
        /\ \A i, j \in 1..Len(data) :
              (i < j /\ data[i].country = data[j].country)
                  => data[i].date < data[j].date

\* C1's case: a duplicate-free raw table of two countries with a gap to fill.
C1_Witness ==
    /\ pc = "cumulated"
    /\ NoDuplicateKeys(raw_data)
    /\ Cardinality(RawCountries) = 2
    /\ Len(data) > Len(raw_data)

\* C2: in the returned table every row's sum_cases (sum_deaths) is the sum of
\* new_cases (new_deaths) over the rows of its country dated no later than it,
\* and the sums do not decrease along a country's rows when no count is
\* negative.
C2_PrefixSums ==
    Returned =>
        /\ \A i \in 1..Len(data) :
              /\ data[i].sum_cases = Float(SumOf(data, "new_cases", UpTo(data, i)))
              /\ data[i].sum_deaths = Float(SumOf(data, "new_deaths", UpTo(data, i)))
        /\ (\A i \in 1..Len(data) : data[i].new_cases >= 0 /\ data[i].new_deaths >= 0)
              => \A i, j \in 1..Len(data) :
                    (i < j /\ data[i].country = data[j].country)
                        => /\ FLe(data[i].sum_cases, data[j].sum_cases)
                           /\ FLe(data[i].sum_deaths, data[j].sum_deaths)

\* C2 restricted to raw tables without a duplicate (country, date) pair.
C2_PrefixSumsOfUniqueRaw == NoDuplicateKeys(raw_data) => C2_PrefixSums

\* x * (p / 100) = y
TimesCapitaIs(x, p, y) ==
    ~IsNaN(x) /\ ~IsNaN(y) /\ x.num * p * y.den = y.num * 100 * x.den

MatchesOf(country) ==
    {k \in 1..Len(population) : population[k].Region = country}

\* C3: after norm_population, a country matching exactly one population row has
\* each per-capita column equal to its column divided by (population / 100); a
\* country matching no row or several has all four per-capita columns NaN.
C3_PerCapita ==
    pc = "normed" =>
        \A i \in 1..Len(data) :
            LET r == data[i]
                m == MatchesOf(r.country)
            IN IF Cardinality(m) = 1
               THEN LET p == population[CHOOSE k \in m : TRUE].Population_2020
                    IN /\ TimesCapitaIs(r.sum_cases_per_capita, p, r.sum_cases)
                       /\ TimesCapitaIs(r.sum_deaths_per_capita, p, r.sum_deaths)
                       /\ TimesCapitaIs(r.new_cases_per_capita, p,
                                        Float(r.new_cases))
                       /\ TimesCapitaIs(r.new_deaths_per_capita, p,
                                        Float(r.new_deaths))
               ELSE /\ IsNaN(r.sum_cases_per_capita)
                    /\ IsNaN(r.sum_deaths_per_capita)
                    /\ IsNaN(r.new_cases_per_capita)
                    /\ IsNaN(r.new_deaths_per_capita)

\* C3's case: a country with cases and a single match beside one without a match.
C3_Witness ==
    /\ pc = "normed"
    /\ \E i, j \in 1..Len(data) :
          /\ Cardinality(MatchesOf(data[i].country)) = 1
          /\ data[i].sum_cases.num > 0
          /\ Cardinality(MatchesOf(data[j].country)) = 0

\* The rows of the returned table that are not rows of the raw table.
Synthesized == {i \in 1..Len(data) : << data[i].country, data[i].date >> \notin RawKeys}

\* C9: every synthesized row has new_cases = 0 and new_deaths = 0 and the geoid
\* of the raw row of its country with the greatest date.
C9_AuxFromChronologicallyLast ==
    Returned =>
        \A i \in Synthesized :
            /\ data[i].new_cases = 0
            /\ data[i].new_deaths = 0
            /\ \E k \in 1..Len(raw_data) :
                  /\ raw_data[k].country = data[i].country
                  /\ \A l \in 1..Len(raw_data) :
                        raw_data[l].country = data[i].country
                            => raw_data[l].date <= raw_data[k].date
                  /\ data[i].geoid = raw_data[k].geoid

\* C10: add_cumulative returns no table with two rows of the same
\* (country, date) pair: it fails instead.
C10_DuplicatesRejected == Returned => NoDuplicateKeys(data)

-----------------------------------------------------------------------------
(* Properties of the map functions.                                        *)

DataCountries == {data[i].country : i \in 1..Len(data)}

\* The value the claims expect in place of v: log(v) for v > 0 and NaN for
\* v <= 0 under the log flag (NaN stays NaN), v itself without the flag.
Transformed(v) ==
    IF log THEN (IF FGt(v, Float(0)) THEN np_log(v) ELSE NaN) ELSE v

\* The color scale in use when the styles were made.
ScaleInUse ==
    IF pc = "drawn" THEN [vmin |-> min_value, vmax |-> max_value]
    ELSE [vmin |-> Float(0), vmax |-> Float(3)]

Blank == [color |-> BlankColor, opacity |-> Float(0)]

\* The style the claims expect for the transformed value t.
ExpectedStyle(t) ==
    IF IsNaN(t) THEN Blank
    ELSE IF ~threshold.none /\ FLt(t, threshold.val) THEN Blank
    ELSE [color |-> ColorMap(ScaleInUse, t), opacity |-> Ratio(7, 10)]

\* C4: create_style gives every country that has a feature one style per row,
\* in row order: blank (opacity 0, '#ffffff') for an undefined transformed
\* value, else blank for a value strictly below a configured threshold, else
\* opacity 0.7 with color_map(value).
C4_StyleRules ==
    pc \in {"styled", "drawn"} =>
        \A c \in DataCountries :
            LET id == get_country_id(c, geojson)
                rows == SelectSeq(data, LAMBDA r : r.country = c)
            IN id # NoId =>
                  /\ id \in DOMAIN styles
                  /\ Len(styles[id]) = Len(rows)
                  /\ \A k \in 1..Len(rows) :
                        styles[id][k] = ExpectedStyle(Transformed(rows[k].sum_cases))

\* C4's case: under the log flag and a threshold, one country's styles hold a
\* value at the threshold (shown) beside a blank one.
C4_Witness ==
    /\ pc = "styled" /\ log /\ ~threshold.none
    /\ \E id \in DOMAIN styles :
          \E j, k \in 1..Len(styles[id]) :
              /\ styles[id][j] = Blank
              /\ styles[id][k].opacity = Ratio(7, 10)
              /\ styles[id][k].color[4] = threshold.val

\* The defined transformed values of the table, and the seed 0.0.
RangeValues ==
    {Float(0)} \cup
    {t \in {Transformed(data[i].sum_cases) : i \in 1..Len(data)} : ~IsNaN(t)}

\* C5: get_min_max returns the minimum and the maximum of 0.0 and every defined
\* transformed value; undefined values change nothing, wherever they are.
\* Stated for the tables with at most one row per country and date.
C5_RangeSkipsUndefined ==
    (pc \in {"ranged", "drawn"} /\ NoDuplicateKeys(data)) =>
        /\ min_value \in RangeValues
        /\ max_value \in RangeValues
        /\ \A x \in RangeValues : FLe(min_value, x) /\ FLe(x, max_value)

\* The transformed values of each country with rows, in sorted country order.
ExpectedSeen ==
    LET cs == SortedStrs(DataCountries)
    IN [k \in 1..Len(cs) |->
          LET rows == SelectSeq(data, LAMBDA r : r.country = cs[k])
          IN [n \in 1..Len(rows) |-> Transformed(rows[n].sum_cases)]]

\* C6: under the log flag every value v > 0 becomes log(v) and every v <= 0 NaN,
\* element by element; without it the values are used as they are; and
\* get_min_max and create_style use the same values.
C6_SameTransform ==
    /\ pc \in {"ranged", "drawn"} => seen.min_max = ExpectedSeen
    /\ pc \in {"styled", "drawn"} => seen.style = ExpectedSeen
    /\ pc = "drawn" => seen.min_max = seen.style

\* C6's case: a map drawn under the log flag from a zero and a positive value.
C6_Witness ==
    /\ pc = "drawn" /\ log
    /\ \E i, j \in 1..Len(data) :
          data[i].sum_cases = Float(0) /\ data[j].sum_cases = Float(3)

\* The countries of the data whose name no feature has, case aside.
Unmatched ==
    {c \in DataCountries : \A k \in 1..Len(geojson) : Lower(geojson[k].name) # c}

\* C7: print_missing_countries returns, sorted, exactly the distinct countries
\* of the data that equal no lowercased feature name; a country is reported iff
\* get_country_id finds no feature for it, and no style is made for it.
C7_MissingCountries ==
    /\ pc \in {"reported", "ranged", "styled", "drawn"} =>
          /\ Range(missing) = Unmatched
          /\ \A i, j \in 1..Len(missing) : i < j => StrLess(missing[i], missing[j])
          /\ \A c \in DataCountries :
                (c \in Range(missing)) <=> (get_country_id(c, geojson) = NoId)
    /\ pc \in {"styled", "drawn"} =>
          DOMAIN styles =
              {get_country_id(c, geojson) : c \in DataCountries \ Range(missing)}

\* C7's case: 'u s' (from 'U_S') has no feature and no style, peru has both.
C7_Witness ==
    /\ pc = "styled"
    /\ missing = << ReplaceUnderscore(Lower(Str_U_S)) >>
    /\ Cardinality(DataCountries) = 2
    /\ DOMAIN styles = {"-99"}

\* C8: in the animated map of a table with at most one row per country and
\* date, each styled feature holds, under the time key of each of its country's
\* rows, the style of that row's value, and holds no other time key.
C8_StyleOfOwnDate ==
    (pc = "drawn" /\ NoDuplicateKeys(data)) =>
        \A c \in DataCountries :
            LET id == get_country_id(c, geojson)
                rows == SelectSeq(data, LAMBDA r : r.country = c)
            IN id # NoId =>
                  /\ id \in DOMAIN style_dict
                  /\ DOMAIN style_dict[id] =
                        {TimeKey(rows[k].date) : k \in 1..Len(rows)}
                  /\ \A k \in 1..Len(rows) :
                        style_dict[id][TimeKey(rows[k].date)]
                            = ExpectedStyle(Transformed(rows[k].sum_cases))

\* Every country has one row for each date of the table, in the order in which
\* the dates first appear in the table (as in a table add_cumulative returns).
Completed(tbl) ==
    \A c \in {tbl[i].country : i \in 1..Len(tbl)} :
        Column(Loc(tbl, c), "date") = UniqueOf(Column(tbl, "date"))

\* C8 restricted to completed tables.
C8_StyleOfOwnDateOfCompleted == Completed(data) => C8_StyleOfOwnDate

\* The feature get_country_id answers for a country: the first whose lowercased
\* name is the lowercased country.
FirstMatch(c, k) ==
    /\ Lower(geojson[k].name) = Lower(c)
    /\ \A j \in 1..(k - 1) : Lower(geojson[j].name) # Lower(c)

\* The countries of the list with at least one row of data.
WithRows == {c \in Range(countries) : \E i \in 1..Len(data) : data[i].country = c}

\* C11: for any list of countries (empty, with countries without rows, with
\* countries without a feature) create_style returns a style map whose keys are
\* exactly the ids of the features matching, case aside, a country of the list
\* that has a row of data; each key holds one style per row of its country.
C11_KeysOfStyledCountries ==
    pc = "styled_of" =>
        /\ DOMAIN styles =
              {geojson[k].id : k \in {k \in 1..Len(geojson) :
                                         \E c \in WithRows : FirstMatch(c, k)}}
        /\ \A c \in WithRows : \A k \in 1..Len(geojson) :
              FirstMatch(c, k) =>
                  Len(styles[geojson[k].id]) = Len(Loc(data, c))

\* C11's case: of two countries that both have a feature, only the one with
\* rows of data has a key.
C11_Witness ==
    /\ pc = "styled_of"
    /\ Len(countries) = 2
    /\ \A c \in Range(countries) : get_country_id(c, geojson) # NoId
    /\ Cardinality(WithRows) = 1
    /\ Cardinality(DOMAIN styles) = 1

\* C11's other cases: the empty list, and a list no feature matches.
C11_WitnessEmpty ==
    /\ pc = "styled_of" /\ data # << >>
    /\ \/ countries = << >>
       \/ WithRows # {} /\ \A c \in WithRows : get_country_id(c, geojson) = NoId
    /\ DOMAIN styles = {}

=============================================================================
